---------------------------- MODULE Spec2Model ----------------------------
(***************************************************************************)
(* Model of the upload service of wrigglebug/filehost (src/main.go).       *)
(*                                                                         *)
(* One goroutine per accepted connection runs uploadFile; the goroutines   *)
(* share nothing but the upload directory.  The handler is cut at its      *)
(* file-system calls: everything between two of them is local to the       *)
(* goroutine and is one atomic step.                                       *)
(*                                                                         *)
(* A filename is a sequence of one-character strings.  The content of an   *)
(* uploaded part is a sequence of blocks, one block per write call of      *)
(* io.Copy; a block carries the identity <<request, part>> of the upload   *)
(* it belongs to, so that a file holding blocks of two uploads is told     *)
(* from one holding the blocks of a single upload.                         *)
(***************************************************************************)
EXTENDS Integers, Sequences, FiniteSets, TLC

\* ----------------------------------------------------------------- bounds
NumReq        == 2   \* connections served concurrently (SpecRace)
MaxFiles      == 2   \* parts under the field "file" of one request (Spec)
MaxContentLen == 2   \* blocks of one uploaded part
MaxSeed       == 2   \* distinct values of time.Now().UnixNano() at rand.Seed

Conns == 1..NumReq
Seeds == 0..(MaxSeed - 1)

\* --------------------------------------------------------- configuration
hostname  == "http://localhost"
uploadDir == "./uploaded"

\* the set with ".exe" left out
disallowedExtensions_noExe ==
  { <<".", "b", "a", "t">>, <<".", "c", "m", "d">>,
    <<".", "m", "s", "i">>, <<".", "v", "b", "s">>, <<".", "s", "c", "r">>,
    <<".", "h", "t", "m", "l">> }

disallowedExtensions ==
  { <<".", "e", "x", "e">>, <<".", "b", "a", "t">>, <<".", "c", "m", "d">>,
    <<".", "m", "s", "i">>, <<".", "v", "b", "s">>, <<".", "s", "c", "r">>,
    <<".", "h", "t", "m", "l">> }

StatusBadRequest          == 400
StatusInternalServerError == 500
StatusOK                  == 200

\* ------------------------------------------------------ library functions
\* filepath.Ext: the suffix beginning at the final dot of the final path
\* element; empty when there is no dot.
RECURSIVE ExtFrom(_, _)
ExtFrom(path, i) ==
  IF i < 1 \/ path[i] = "/" THEN << >>
  ELSE IF path[i] = "." THEN SubSeq(path, i, Len(path))
  ELSE ExtFrom(path, i - 1)

Ext(path) == ExtFrom(path, Len(path))

\* the name stored as it came
ReplaceAll_none(s, old, new) == s

\* strings.ReplaceAll for a one-character old and new
ReplaceAll(s, old, new) ==
  [i \in 1..Len(s) |-> IF s[i] = old THEN new ELSE s[i]]

charset ==
  << "a","b","c","d","e","f","g","h","i","j","k","l","m",
     "n","o","p","q","r","s","t","u","v","w","x","y","z",
     "A","B","C","D","E","F","G","H","I","J","K","L","M",
     "N","O","P","Q","R","S","T","U","V","W","X","Y","Z",
     "0","1","2","3","4","5","6","7","8","9" >>

\* rand.Intn(n), the k-th draw after rand.Seed(seed): some number of 0..n-1
\* fixed by the seed.  The generator of math/rand is not reproduced; any
\* function of (seed, k) into 0..n-1 stands for it.
Intn(seed, k, n) == ((seed + 1) * (7 * k + 3) + 11 * seed) % n

generateRandomString(length, seed) ==
  [i \in 1..length |-> charset[Intn(seed, i, Len(charset)) + 1]]

\* the storage filename without the name of the part
NewFilename_prefixOnly(seed, Filename) ==
  generateRandomString(6, seed) \o <<"_">>

\* the storage filename of lines 87-89
NewFilename(seed, Filename) ==
  generateRandomString(6, seed) \o <<"_">> \o ReplaceAll(Filename, " ", "_")

\* the url of line 106, as hostname and path segments
FormatURL(newFilename) ==
  [host |-> hostname, path |-> <<"files", "uploaded", newFilename>>]

\* a write of one block at offset off (0-based) of a file opened without
\* O_TRUNC and without O_APPEND: the block replaces the one at that offset
\* or extends the file; every other block of the file stays
WriteAt(old, off, block) ==
  IF off < Len(old) THEN [old EXCEPT ![off + 1] = block]
  ELSE old \o <<block>>

\* ------------------------------------------------------------------ state
VARIABLES
  conns,      \* the connections the server accepted
  req,        \* req[r]: the request on connection r
  pc,         \* pc[r]: where the goroutine of r is in uploadFile
  idx,        \* idx[r]: the part the range loop of line 66 is at (1-based)
  fd,         \* fd[r]: f of line 91, the open destination: path and offset
  responses,  \* responses[r]: the slice of line 64
  written,    \* written[r]: the responses written to w, in order
  dirExists,  \* whether uploadDir exists
  disk        \* the files of uploadDir: storage filename -> content

vars == <<conns, req, pc, idx, fd, responses, written, dirExists, disk>>

NoFd == [path |-> << >>, off |-> -1]

\* ----------------------------------------------------------------- inputs
FilenameList ==
  << <<"a", " ", "b", ".", "t">>,       \* accepted, with a space
     <<"a", "_", "b", ".", "t">>,       \* accepted, the sanitized form of the one above
     <<"x", ".", "E", "X", "E">>,       \* accepted: upper case is not in the disallowed set
     <<"x", ".", "e", "x", "e">>,       \* disallowed
     <<".", "h", "t", "m", "l">>,       \* disallowed, the whole name is the extension
     <<"a", "b">> >>                    \* no dot

Filenames == { FilenameList[i] : i \in DOMAIN FilenameList }

\* the content of part k of request r, n blocks long
Content(r, k, n) == [i \in 1..n |-> <<r, k>>]

\* the lists of up to maxParts parts of request r, names and lengths drawn
\* freely from the given sets
PartLists(r, names, lengths, maxParts) ==
  UNION { { [k \in 1..n |-> [Filename |-> nm[k], Content |-> Content(r, k, ln[k])]] :
              nm \in [1..n -> names], ln \in [1..n -> lengths] } : n \in 0..maxParts }

\* a request whose body ParseMultipartForm rejects
Malformed == [parsed |-> FALSE, files |-> << >>]

Requests(r, names, lengths, maxParts) ==
  { Malformed } \cup
  { [parsed |-> TRUE, files |-> fs] : fs \in PartLists(r, names, lengths, maxParts) }

InitRest ==
  /\ pc = [r \in Conns |-> "recv"]
  /\ idx = [r \in Conns |-> 0]
  /\ fd = [r \in Conns |-> NoFd]
  /\ responses = [r \in Conns |-> << >>]
  /\ written = [r \in Conns |-> << >>]
  /\ dirExists = FALSE
  /\ disk = << >>

\* one connection: a request of up to MaxFiles parts, each of any of the
\* names and of 0..MaxContentLen blocks
Init ==
  /\ conns = {1}
  /\ \E q \in Requests(1, Filenames, 0..MaxContentLen, MaxFiles) :
       req = [r \in Conns |-> IF r = 1 THEN q ELSE Malformed]
  /\ InitRest

\* an order on the requests of at most one part: malformed, no part, then
\* by the place of the name in FilenameList
Rank(q) ==
  IF ~q.parsed THEN 0
  ELSE IF Len(q.files) = 0 THEN 1
  ELSE 1 + CHOOSE i \in DOMAIN FilenameList : FilenameList[i] = q.files[1].Filename

\* NumReq connections served at once: each request has at most one part, of
\* any of the names and of MaxContentLen blocks.  The goroutines run the same
\* code and differ in nothing but the connection, so the requests are given
\* to the connections in one order only.
InitRace ==
  /\ conns = Conns
  /\ req \in [Conns -> UNION { Requests(r, Filenames, {MaxContentLen}, 1) : r \in Conns }]
  /\ \A r \in Conns : req[r] \in Requests(r, Filenames, {MaxContentLen}, 1)
  /\ \A r \in Conns : r + 1 \in Conns => Rank(req[r]) <= Rank(req[r + 1])
  /\ InitRest

\* ------------------------------------------------------------- GET routes
\* the files of ./static; the repository does not hold them, the upload
\* directory is not among them
staticFiles == (<<"index.html">> :> <<"page">>)

\* http.FileServer over a directory without subdirectories
FileServer(files, path) ==
  IF Len(path) = 1 /\ path[1] \in DOMAIN files
  THEN [found |-> TRUE, body |-> files[path[1]]]
  ELSE [found |-> FALSE, body |-> << >>]

\* GET of a path, given as its segments, through the routes of lines 155-157:
\* "/uploaded/" is stripped and served from uploadDir, "/upload" is the
\* handler, everything else is served from ./static
GET(path) ==
  IF Len(path) >= 2 /\ path[1] = "uploaded" THEN FileServer(disk, Tail(path))
  ELSE IF path = <<"upload">> THEN [found |-> FALSE, body |-> << >>]
  ELSE FileServer(staticFiles, path)

\* ---------------------------------------------------------------- actions
\* writeJSONError, lines 125-130
writeJSONError(r, message, code) ==
  written' = [written EXCEPT ![r] = Append(@, [code |-> code, body |-> [error |-> message]])]

Part(r) == req[r].files[idx[r]]

\* lines 44-49
ParseFail(r) ==
  /\ pc[r] = "recv"
  /\ ~req[r].parsed
  /\ writeJSONError(r, "Unable to parse form", StatusBadRequest)
  /\ pc' = [pc EXCEPT ![r] = "done"]
  /\ UNCHANGED <<conns, req, idx, fd, responses, dirExists, disk>>

\* the directory made before the parts are counted
NoFiles_afterMkdir(r) ==
  /\ pc[r] = "recv"
  /\ req[r].parsed
  /\ Len(req[r].files) = 0
  /\ dirExists' = TRUE
  /\ writeJSONError(r, "No files uploaded", StatusBadRequest)
  /\ pc' = [pc EXCEPT ![r] = "done"]
  /\ UNCHANGED <<conns, req, idx, fd, responses, disk>>

\* lines 51-55
NoFiles(r) ==
  /\ pc[r] = "recv"
  /\ req[r].parsed
  /\ Len(req[r].files) = 0
  /\ writeJSONError(r, "No files uploaded", StatusBadRequest)
  /\ pc' = [pc EXCEPT ![r] = "done"]
  /\ UNCHANGED <<conns, req, idx, fd, responses, dirExists, disk>>

\* lines 57-64, os.MkdirAll succeeds
MkdirAll(r) ==
  /\ pc[r] = "recv"
  /\ req[r].parsed
  /\ Len(req[r].files) # 0
  /\ dirExists' = TRUE
  /\ pc' = [pc EXCEPT ![r] = "loop"]
  /\ idx' = [idx EXCEPT ![r] = 1]
  /\ UNCHANGED <<conns, req, fd, responses, written, disk>>

\* lines 57-62, os.MkdirAll fails (it cannot once the directory exists)
MkdirFail(r) ==
  /\ pc[r] = "recv"
  /\ req[r].parsed
  /\ Len(req[r].files) # 0
  /\ ~dirExists
  /\ writeJSONError(r, "Unable to create directory", StatusInternalServerError)
  /\ pc' = [pc EXCEPT ![r] = "done"]
  /\ UNCHANGED <<conns, req, idx, fd, responses, dirExists, disk>>

InLoop(r) == pc[r] = "loop" /\ idx[r] <= Len(req[r].files)

\* the part skipped, the loop going on with the next one
NoExt_continue(r) ==
  /\ pc[r] = "loop" /\ idx[r] <= Len(req[r].files)
  /\ Ext(Part(r).Filename) = << >>
  /\ writeJSONError(r, "Filename must have an extension", StatusBadRequest)
  /\ idx' = [idx EXCEPT ![r] = @ + 1]
  /\ UNCHANGED <<conns, req, pc, fd, responses, dirExists, disk>>

\* lines 67-71
NoExt(r) ==
  /\ InLoop(r)
  /\ Ext(Part(r).Filename) = << >>
  /\ writeJSONError(r, "Filename must have an extension", StatusBadRequest)
  /\ pc' = [pc EXCEPT ![r] = "done"]
  /\ UNCHANGED <<conns, req, idx, fd, responses, dirExists, disk>>

\* the files stored for the earlier parts removed on rejection
Disallowed_rollback(r) ==
  /\ pc[r] = "loop" /\ idx[r] <= Len(req[r].files)
  /\ Ext(Part(r).Filename) # << >>
  /\ Ext(Part(r).Filename) \in disallowedExtensions
  /\ writeJSONError(r, "Disallowed file extension", StatusBadRequest)
  /\ disk' = [f \in { g \in DOMAIN disk :
                        \A k \in DOMAIN responses[r] : responses[r][k].filename # g }
                |-> disk[f]]
  /\ pc' = [pc EXCEPT ![r] = "done"]
  /\ UNCHANGED <<conns, req, idx, fd, responses, dirExists>>

\* lines 73-76
Disallowed(r) ==
  /\ InLoop(r)
  /\ Ext(Part(r).Filename) # << >>
  /\ Ext(Part(r).Filename) \in disallowedExtensions
  /\ writeJSONError(r, "Disallowed file extension", StatusBadRequest)
  /\ pc' = [pc EXCEPT ![r] = "done"]
  /\ UNCHANGED <<conns, req, idx, fd, responses, dirExists, disk>>

Validated(r) ==
  /\ InLoop(r)
  /\ Ext(Part(r).Filename) # << >>
  /\ Ext(Part(r).Filename) \notin disallowedExtensions

\* lines 78-83, fileHeader.Open fails
OpenFail(r) ==
  /\ Validated(r)
  /\ writeJSONError(r, "Unable to open uploaded file", StatusInternalServerError)
  /\ pc' = [pc EXCEPT ![r] = "done"]
  /\ UNCHANGED <<conns, req, idx, fd, responses, dirExists, disk>>

\* lines 78-97, os.OpenFile(O_WRONLY|O_CREATE) succeeds: the file is created
\* empty when absent and left as it is when present; the offset is 0
CreateFile(r) ==
  /\ Validated(r)
  /\ \E seed \in Seeds :
       LET newFilename == NewFilename(seed, Part(r).Filename) IN
       /\ disk' = IF newFilename \in DOMAIN disk THEN disk
                  ELSE (newFilename :> << >>) @@ disk
       /\ fd' = [fd EXCEPT ![r] = [path |-> newFilename, off |-> 0]]
  /\ pc' = [pc EXCEPT ![r] = "copy"]
  /\ UNCHANGED <<conns, req, idx, responses, written, dirExists>>

\* the failure of os.OpenFile reported as a bad request
CreateFail_badRequest(r) ==
  /\ Validated(r)
  /\ writeJSONError(r, "Unable to create file on server", StatusBadRequest)
  /\ pc' = [pc EXCEPT ![r] = "done"]
  /\ UNCHANGED <<conns, req, idx, fd, responses, dirExists, disk>>

\* lines 91-96, os.OpenFile fails
CreateFail(r) ==
  /\ Validated(r)
  /\ writeJSONError(r, "Unable to create file on server", StatusInternalServerError)
  /\ pc' = [pc EXCEPT ![r] = "done"]
  /\ UNCHANGED <<conns, req, idx, fd, responses, dirExists, disk>>

\* line 99, one write of io.Copy
CopyWrite(r) ==
  /\ pc[r] = "copy"
  /\ fd[r].off < Len(Part(r).Content)
  /\ disk' = [disk EXCEPT ![fd[r].path] =
                WriteAt(@, fd[r].off, Part(r).Content[fd[r].off + 1])]
  /\ fd' = [fd EXCEPT ![r].off = @ + 1]
  /\ UNCHANGED <<conns, req, pc, idx, responses, written, dirExists>>

\* lines 99-104, io.Copy fails: what was written stays, and the deferred
\* f.Close() of line 97 runs on return
CopyFail(r) ==
  /\ pc[r] = "copy"
  /\ writeJSONError(r, "Unable to save file on server", StatusInternalServerError)
  /\ fd' = [fd EXCEPT ![r] = NoFd]
  /\ pc' = [pc EXCEPT ![r] = "done"]
  /\ UNCHANGED <<conns, req, idx, responses, dirExists, disk>>

\* lines 99-112, io.Copy reached the end of the part
CopyDone(r) ==
  /\ pc[r] = "copy"
  /\ fd[r].off = Len(Part(r).Content)
  /\ responses' = [responses EXCEPT ![r] =
                     Append(@, [filename |-> fd[r].path, url |-> FormatURL(fd[r].path)])]
  /\ fd' = [fd EXCEPT ![r] = NoFd]
  /\ idx' = [idx EXCEPT ![r] = @ + 1]
  /\ pc' = [pc EXCEPT ![r] = "loop"]
  /\ UNCHANGED <<conns, req, written, dirExists, disk>>

\* lines 114-122; json.Marshal of a slice of two-string structs cannot fail
Respond(r) ==
  /\ pc[r] = "loop"
  /\ idx[r] > Len(req[r].files)
  /\ written' = [written EXCEPT ![r] =
                   Append(@, [code |-> StatusOK, body |-> [ok |-> responses[r]]])]
  /\ pc' = [pc EXCEPT ![r] = "done"]
  /\ UNCHANGED <<conns, req, idx, fd, responses, dirExists, disk>>

\* the server: any goroutine takes its next step
Next ==
  \/ \E r \in conns : ParseFail(r)
  \/ \E r \in conns : NoFiles(r)
  \/ \E r \in conns : MkdirAll(r)
  \/ \E r \in conns : MkdirFail(r)
  \/ \E r \in conns : NoExt(r)
  \/ \E r \in conns : Disallowed(r)
  \/ \E r \in conns : OpenFail(r)
  \/ \E r \in conns : CreateFile(r)
  \/ \E r \in conns : CreateFail(r)
  \/ \E r \in conns : CopyWrite(r)
  \/ \E r \in conns : CopyFail(r)
  \/ \E r \in conns : CopyDone(r)
  \/ \E r \in conns : Respond(r)

Spec == Init /\ [][Next]_vars

SpecRace == InitRace /\ [][Next]_vars

\* ======================================================== properties
\* The vocabulary of the properties is written out here and shares nothing
\* with the definitions of the handler above.

DisallowedSet ==
  { <<".", "e", "x", "e">>, <<".", "b", "a", "t">>, <<".", "c", "m", "d">>,
    <<".", "m", "s", "i">>, <<".", "v", "b", "s">>, <<".", "s", "c", "r">>,
    <<".", "h", "t", "m", "l">> }

AlphaNum ==
  { "a","b","c","d","e","f","g","h","i","j","k","l","m","n","o","p","q","r",
    "s","t","u","v","w","x","y","z","A","B","C","D","E","F","G","H","I","J",
    "K","L","M","N","O","P","Q","R","S","T","U","V","W","X","Y","Z",
    "0","1","2","3","4","5","6","7","8","9" }

ValidationMessages ==
  { "Unable to parse form", "No files uploaded",
    "Filename must have an extension", "Disallowed file extension" }

IOMessages ==
  { "Unable to create directory", "Unable to open uploaded file",
    "Unable to create file on server", "Unable to save file on server",
    "Unable to marshal JSON" }

HasDot(n) == \E i \in DOMAIN n : n[i] = "."

\* the name from its last dot on
ExtensionOf(n) ==
  IF ~HasDot(n) THEN << >>
  ELSE LET last == CHOOSE i \in DOMAIN n : n[i] = "." /\ \A j \in DOMAIN n : n[j] = "." => j <= i
       IN  [j \in 1..(Len(n) - last + 1) |-> n[last + j - 1]]

HasDisallowedExt(n) == ExtensionOf(n) \in DisallowedSet

Acceptable(n) == ExtensionOf(n) # << >> /\ ~HasDisallowedExt(n)

Underscored(n) == [i \in DOMAIN n |-> IF n[i] = " " THEN "_" ELSE n[i]]

ErrorReply(code, message) == [code |-> code, body |-> [error |-> message]]

Parts(r) == DOMAIN req[r].files

Name(r, k) == req[r].files[k].Filename

Uploaded(r, k) == req[r].files[k].Content

\* r has been answered, once, with 200 and the list of its stored files
Answered200(r) ==
  /\ pc[r] = "done"
  /\ Len(written[r]) = 1
  /\ written[r][1].code = 200
  /\ DOMAIN written[r][1].body = {"ok"}

Results(r) == written[r][1].body.ok

\* no I/O step of r failed
NoIOFailure(r) == \A n \in DOMAIN written[r] : written[r][n].code # 500

BlocksOnDisk == UNION { { disk[f][n] : n \in DOMAIN disk[f] } : f \in DOMAIN disk }

\* the upload directory holds no file for part i of r nor for a later part:
\* none of their blocks, and (r being the one connection) at most one file
\* per earlier part
NothingWrittenFrom(r, i) ==
  /\ \A k \in Parts(r) : k >= i => <<r, k>> \notin BlocksOnDisk
  /\ Cardinality(DOMAIN disk) <= i - 1

\* C1, as claimed: a file of a request answered 200 is served back, byte for
\* byte, by GET /uploaded/<filename>, whatever the upload directory held
\* before.  Stated of the directory as it is when the request has been
\* answered, for every file that no later part of the request was stored over.
C1_RoundTrip ==
  \A r \in conns : Answered200(r) =>
    \A k \in Parts(r) :
      (\A j \in Parts(r) : j > k => Results(r)[j].filename # Results(r)[k].filename)
        => GET(<<"uploaded", Results(r)[k].filename>>)
             = [found |-> TRUE, body |-> Uploaded(r, k)]

\* C2, as claimed: a request with a part of disallowed extension is answered
\* 400 "Disallowed file extension", and nothing is written for that part or a
\* later one.  Stated for the requests no I/O step of which failed.
C2_Original ==
  \A r \in conns : \A i \in Parts(r) : HasDisallowedExt(Name(r, i)) =>
    /\ NothingWrittenFrom(r, i)
    /\ (pc[r] = "done" /\ NoIOFailure(r))
         => written[r] = <<ErrorReply(400, "Disallowed file extension")>>

\* C2, amended: nothing is ever written for a part of disallowed extension or
\* for a later part, and a request whose loop has reached such a part is
\* answered, once, 400 "Disallowed file extension".
C2_DisallowedRejected ==
  \A r \in conns : \A i \in Parts(r) : HasDisallowedExt(Name(r, i)) =>
    /\ NothingWrittenFrom(r, i)
    /\ (pc[r] = "done" /\ idx[r] = i)
         => written[r] = <<ErrorReply(400, "Disallowed file extension")>>

C2_Witness ==
  \E r \in conns :
    /\ pc[r] = "done"
    /\ idx[r] = 2
    /\ 2 \in Parts(r)
    /\ HasDisallowedExt(Name(r, 2))
    /\ Acceptable(Name(r, 1))
    /\ <<r, 1>> \in BlocksOnDisk
    /\ written[r] = <<ErrorReply(400, "Disallowed file extension")>>

\* C3, as claimed: a request with a part whose name has no dot is answered
\* 400 "Filename must have an extension", and nothing is written for that
\* part or a later one.  Stated for the requests no I/O step of which failed.
C3_Original ==
  \A r \in conns : \A i \in Parts(r) : ~HasDot(Name(r, i)) =>
    /\ NothingWrittenFrom(r, i)
    /\ (pc[r] = "done" /\ NoIOFailure(r))
         => written[r] = <<ErrorReply(400, "Filename must have an extension")>>

\* C3, amended: nothing is ever written for a part whose name has no dot or
\* for a later part, and a request whose loop has reached such a part is
\* answered, once, 400 "Filename must have an extension".
C3_NoExtensionRejected ==
  \A r \in conns : \A i \in Parts(r) : ~HasDot(Name(r, i)) =>
    /\ NothingWrittenFrom(r, i)
    /\ (pc[r] = "done" /\ idx[r] = i)
         => written[r] = <<ErrorReply(400, "Filename must have an extension")>>

C3_Witness ==
  \E r \in conns :
    /\ pc[r] = "done"
    /\ idx[r] = 2
    /\ 2 \in Parts(r)
    /\ ~HasDot(Name(r, 2))
    /\ Acceptable(Name(r, 1))
    /\ <<r, 1>> \in BlocksOnDisk
    /\ written[r] = <<ErrorReply(400, "Filename must have an extension")>>

ValidThenDisallowed(r) ==
  /\ req[r].parsed
  /\ Len(req[r].files) = 2
  /\ Acceptable(Name(r, 1))
  /\ HasDisallowedExt(Name(r, 2))

\* the file of part k of r is in the upload directory, under a name that
\* ends with the name of the part, and holds what was uploaded
InDirectory(r, k) ==
  \E f \in DOMAIN disk :
    /\ Len(f) = 7 + Len(Name(r, k))
    /\ SubSeq(f, 8, Len(f)) = Underscored(Name(r, k))
    /\ disk[f] = Uploaded(r, k)

\* C4: a request of one valid file followed by one of disallowed extension,
\* no I/O step of which failed, is answered once, with 400 and an object that
\* has the one field error, and the valid file is in the upload directory
\* when the request has ended.
C4_BatchRejectedNoRollback ==
  \A r \in conns : (ValidThenDisallowed(r) /\ pc[r] = "done" /\ NoIOFailure(r)) =>
    /\ Len(written[r]) = 1
    /\ written[r][1].code = 400
    /\ DOMAIN written[r][1].body = {"error"}
    /\ InDirectory(r, 1)

C4_Witness ==
  \E r \in conns :
    /\ ValidThenDisallowed(r)
    /\ pc[r] = "done"
    /\ NoIOFailure(r)
    /\ Len(Uploaded(r, 1)) = MaxContentLen
    /\ InDirectory(r, 1)

\* a storage filename for the original name n: six alphanumeric characters,
\* an underscore, then n with every space turned into an underscore
StorageNameOf(f, n) ==
  /\ Len(f) = 6 + 1 + Len(n)
  /\ \A i \in 1..6 : f[i] \in AlphaNum
  /\ f[7] = "_"
  /\ \A i \in DOMAIN n : f[7 + i] = (IF n[i] = " " THEN "_" ELSE n[i])

\* C5: every stored file is in the upload directory under a name of that
\* form, and that name is the filename of its UploadResult, in the handler's
\* list and in the 200 response.
C5_StorageFilename ==
  \A r \in conns :
    /\ \A k \in DOMAIN responses[r] :
         /\ StorageNameOf(responses[r][k].filename, Name(r, k))
         /\ responses[r][k].filename \in DOMAIN disk
    /\ pc[r] = "copy" => StorageNameOf(fd[r].path, Name(r, idx[r]))
    /\ \A n \in DOMAIN written[r] : written[r][n].code = 200 =>
         /\ DOMAIN written[r][n].body = {"ok"}
         /\ Len(written[r][n].body.ok) = Len(req[r].files)
         /\ \A k \in Parts(r) :
              /\ StorageNameOf(written[r][n].body.ok[k].filename, Name(r, k))
              /\ written[r][n].body.ok[k].filename \in DOMAIN disk
    /\ \A f \in DOMAIN disk : \E k \in Parts(r) : StorageNameOf(f, Name(r, k))

C5_Witness ==
  \E r \in conns :
    /\ Answered200(r)
    /\ \E k \in Parts(r) :
         /\ \E i \in DOMAIN Name(r, k) : Name(r, k)[i] = " "
         /\ StorageNameOf(Results(r)[k].filename, Name(r, k))
         /\ Results(r)[k].filename \in DOMAIN disk

NoParts(r) == req[r].parsed /\ Len(req[r].files) = 0

\* C6: a request that supplies a form with no part under "file" is answered,
\* once, 400 {"error":"No files uploaded"}, and neither the upload directory
\* nor a file in it has been created when it is.
C6_NoFilesUploaded ==
  \A r \in conns : NoParts(r) =>
    /\ ~dirExists
    /\ DOMAIN disk = {}
    /\ pc[r] = "done" => written[r] = <<ErrorReply(400, "No files uploaded")>>
    /\ pc[r] # "done" => written[r] = << >>

C6_Witness ==
  \E r \in conns :
    /\ NoParts(r)
    /\ pc[r] = "done"
    /\ written[r] = <<ErrorReply(400, "No files uploaded")>>

\* C7, as claimed: the url of every UploadResult is the configured hostname
\* followed by a path that the server's routes resolve to the stored file,
\* as GET /uploaded/<filename> does.
C7_UrlReachable ==
  \A r \in conns : Answered200(r) =>
    \A k \in DOMAIN Results(r) :
      /\ Results(r)[k].url.host = hostname
      /\ GET(Results(r)[k].url.path).found
      /\ GET(Results(r)[k].url.path) = GET(<<"uploaded", Results(r)[k].filename>>)

AllDone == \A r \in conns : pc[r] = "done"

AllParts == { p \in conns \X (1..MaxFiles) : p[2] \in Parts(p[1]) }

\* every stored file holds what was uploaded for it
StoredIntact ==
  \A r \in conns : \A k \in DOMAIN responses[r] :
    /\ responses[r][k].filename \in DOMAIN disk
    /\ disk[responses[r][k].filename] = Uploaded(r, k)

\* C8, as claimed: when the files of concurrent requests have pairwise
\* distinct original names, every stored file holds what was uploaded for it
\* once all requests have completed.
C8_Original ==
  (AllDone /\ \A p, q \in AllParts : p # q => Name(p[1], p[2]) # Name(q[1], q[2]))
    => StoredIntact

\* C8, amended: so it is when the names are pairwise distinct after the
\* replacement of spaces by underscores.
C8_DistinctSanitizedNames ==
  (AllDone /\ \A p, q \in AllParts :
                p # q => Underscored(Name(p[1], p[2])) # Underscored(Name(q[1], q[2])))
    => StoredIntact

C8_Witness ==
  /\ AllDone
  /\ \A p, q \in AllParts :
       p # q => Underscored(Name(p[1], p[2])) # Underscored(Name(q[1], q[2]))
  /\ \E r1, r2 \in conns :
       /\ r1 # r2
       /\ Answered200(r1) /\ Answered200(r2)
       /\ Len(Results(r1)) = 1 /\ Len(Results(r2)) = 1
       /\ SubSeq(Results(r1)[1].filename, 1, 6) = SubSeq(Results(r2)[1].filename, 1, 6)
       /\ disk[Results(r1)[1].filename] = Uploaded(r1, 1)
       /\ disk[Results(r2)[1].filename] = Uploaded(r2, 1)

\* r has been sent a response that is not the 200 of a success
Failed(r) == \E n \in DOMAIN written[r] : written[r][n].code # 200

\* what the request itself is rejected for at the place the handler stopped
InvalidAt(r, message) ==
  \/ message = "Unable to parse form" /\ ~req[r].parsed
  \/ message = "No files uploaded" /\ NoParts(r)
  \/ /\ message = "Filename must have an extension"
     /\ idx[r] \in Parts(r)
     /\ ~HasDot(Name(r, idx[r]))
  \/ /\ message = "Disallowed file extension"
     /\ idx[r] \in Parts(r)
     /\ HasDisallowedExt(Name(r, idx[r]))

\* C9: a failing request has one response and has stopped at the failure:
\* nothing is written for a part after the one it stopped at; the status is
\* 400 with one of the validation messages, for a request that is invalid in
\* that way, or 500 with one of the I/O messages; the body has the one field
\* error.
C9_OneErrorResponse ==
  \A r \in conns : Failed(r) =>
    /\ pc[r] = "done"
    /\ Len(written[r]) = 1
    /\ DOMAIN written[r][1].body = {"error"}
    /\ \/ /\ written[r][1].code = 400
          /\ written[r][1].body.error \in ValidationMessages
          /\ InvalidAt(r, written[r][1].body.error)
       \/ /\ written[r][1].code = 500
          /\ written[r][1].body.error \in IOMessages
          /\ \A m \in ValidationMessages : ~InvalidAt(r, m)
    /\ NothingWrittenFrom(r, idx[r] + 1)

C9_Witness ==
  \E r \in conns :
    /\ pc[r] = "done"
    /\ idx[r] = 2
    /\ <<r, 1>> \in BlocksOnDisk
    /\ written[r] = <<ErrorReply(500, "Unable to save file on server")>>
    /\ <<r, 2>> \in BlocksOnDisk

\* C10, as claimed: when two uploads resolve to the same storage path, the
\* file holds, once both have completed, exactly the content of the one that
\* wrote last.  Stated for two parts of one request, the later of which has
\* written.
C10_LastWriterWins ==
  \A r \in conns : Answered200(r) =>
    \A j, k \in Parts(r) :
      ( /\ j < k
        /\ Results(r)[j].filename = Results(r)[k].filename
        /\ \A l \in Parts(r) : l > k => Results(r)[l].filename # Results(r)[k].filename
        /\ Len(Uploaded(r, k)) >= 1 )
      => disk[Results(r)[k].filename] = Uploaded(r, k)


=============================================================================
